---- MODULE Spec2Model ----
(***************************************************************************)
(* Model of the listing extraction service (ListingService).              *)
(*                                                                         *)
(* scrapeApartmentData(url, user) is an async method; every `await` is a   *)
(* point where other in-flight calls may run.  Each call slot of Calls is  *)
(* one client that invokes the method again and again; the slots run       *)
(* concurrently.  The 'listings' table of the store is the only state      *)
(* shared by the calls.                                                    *)
(***************************************************************************)
EXTENDS Integers, Sequences, FiniteSets, TLC

\* ------------------------------------------------------------------ bounds
MaxStarts == 2       \* invocations of scrapeApartmentData in one behaviour
MaxFaults == 2       \* failures of awaited steps injected in one behaviour

Calls == {"c1", "c2"}     \* call slots (concurrent clients)
Urls == {"u1", "u2"}      \* addresses

\* window.scrollBy(0, 1200) of scrapeAmenities and scrapeFeesAndPolicies
ScrollStep == 1200

\* ------------------------------------------------------------------ values
\* `undefined` / null of the source: the empty tuple.  Every extracted value is
\* a tuple <<field, url, scrollY>> naming what the extractor read: the field,
\* the address of the page loaded by goto and the scroll offset the page was at
\* (the site renders its lower sections lazily, on scroll).
Absent == <<>>
Val(field, u, y) == <<field, u, y>>

\* A ScrapedData record with nothing in it (the slot of a variable not yet set)
NoData ==
  [propertyName |-> Absent, propertyAddress |-> Absent, bedInfo |-> Absent,
   availability |-> Absent, contactInfo |-> Absent, amenities |-> Absent,
   feesAndPolicies |-> Absent]

\* The page of a browser: Absent before goto, else what was loaded and the
\* state the interactions left it in.
NoPage == [loaded |-> FALSE, url |-> "", scrollY |-> 0]

VARIABLES
  listings,    \* listings[u]: the data column of the rows of the store's
               \* 'listings' table whose url column is u, in insertion order
  call,        \* call[c]: the locals and position of slot c's invocation
  browsers,    \* the browser processes that are open, each named by the slot
               \* whose invocation launched it
  started,     \* invocations so far
  faults,      \* failures injected so far
  log,         \* log[c]: the steps slot c's invocation has attempted, in order
  prev,        \* prev[c]: how slot c's previous invocation ended
  job          \* the run of one page function or of mergePdfs that is followed
               \* on its own: its input, its position and its result

vars == <<listings, call, browsers, started, faults, log, prev, job>>

\* The variables of scrapeApartmentData
service == <<listings, call, browsers, started, faults, log, prev>>

\* The locals of one invocation of scrapeApartmentData: its position pc, its
\* parameter and locals under the names of the source, the completion pending
\* while the finally block runs, and how the promise settled (outcome, ret,
\* error).  History kept with them: hit (the lookup returned the cached data),
\* stored (the insert succeeded), failed (the steps that failed), feesPage
\* (the page scrapeFeesAndPolicies started on), clicks (the controls whose
\* click failed) and dirty (another invocation has inserted a row for the
\* same url since the lookup of this one).
IdleCall ==
  [pc |-> "idle", url |-> "", hit |-> FALSE, fetchError |-> "",
   browser |-> "", page |-> NoPage, feesPage |-> NoPage, error |-> "",
   availabilityData |-> NoData, contactInfo |-> Absent, amenities |-> Absent,
   feesAndPolicies |-> Absent, result |-> NoData, insertError |-> "",
   stored |-> FALSE, dirty |-> FALSE, failed |-> {}, clicks |-> {},
   pending |-> "none", outcome |-> "none", ret |-> NoData]

NoPrev == [url |-> "", outcome |-> "none", ret |-> NoData, hit |-> FALSE,
           stored |-> FALSE, failed |-> {}, dirty |-> FALSE]

\* No page function is followed on its own
NoJob == [pc |-> "none"]

\* The service at rest: an empty table and no call made
AtRest ==
  /\ listings = [u \in Urls |-> <<>>]
  /\ call = [c \in Calls |-> IdleCall]
  /\ browsers = {}
  /\ started = 0
  /\ faults = 0
  /\ log = [c \in Calls |-> <<>>]
  /\ prev = [c \in Calls |-> NoPrev]

Init == AtRest /\ job = NoJob


\* ------------------------------------------------------------------ helpers
Set(c, fields) == [call EXCEPT ![c] = fields]
Logged(c, op) == [log EXCEPT ![c] = Append(@, op)]

\* Rows of the table whose url column equals u (.eq('url', u))
RowsOf(rows, u) == rows[u]

\* .single(): the one matching row, or the error PGRST116 when the number of
\* matching rows is not exactly one (none, or several).
Single(rows, u) ==
  LET m == RowsOf(rows, u) IN
  IF Len(m) = 1
    THEN [found |-> TRUE, data |-> m[1], error |-> ""]
    ELSE [found |-> FALSE, data |-> NoData, error |-> "PGRST116"]

\* The lookup failing for another reason than the row count
LookupError == [found |-> FALSE, data |-> NoData, error |-> "OTHER"]

\* The cached data is never taken as a hit
IsCachedNever(existingListing) == FALSE

\* if (existingListing?.data)
IsCached(existingListing) == existingListing.found

\* The end of an invocation: the promise settles (how = "returned" with the
\* value, or "raised" with the error)
Settle(c, locals, how, value) ==
  call' = Set(c, [locals EXCEPT !.pc = "done", !.outcome = how, !.ret = value])

\* How an invocation ended, for the client that goes on to call again
Summary(locals) ==
  [url |-> locals.url, outcome |-> locals.outcome, ret |-> locals.ret,
   hit |-> locals.hit, stored |-> locals.stored, failed |-> locals.failed,
   dirty |-> locals.dirty]

\* An awaited step fails (at most MaxFaults times), or does not
Fault == faults < MaxFaults /\ faults' = faults + 1
NoFault == faults' = faults

\* A throw inside the try block: control goes to the finally block with the
\* error pending
ThrowInTry(c, op) ==
  call' = Set(c, [call[c] EXCEPT !.pc = "close", !.pending = "throw",
                                  !.error = op, !.failed = @ \cup {op}])

\* ------------------------------------------------------------------ extractors
\* Each extractor is the set of ways it can end on a page: ok or thrown (why
\* says at which await), the value it returns, and the page as its
\* interactions left it.
Outcome(ok, why, value, page) ==
  [ok |-> ok, why |-> why, value |-> value, page |-> page]

\* scrapeAvailabilityData: one page.evaluate reading the four mandatory fields
scrapeAvailabilityData(page) ==
  { Outcome(FALSE, "evaluate", NoData, page),
    Outcome(TRUE, "",
      [NoData EXCEPT
         !.propertyName = Val("propertyName", page.url, page.scrollY),
         !.propertyAddress = Val("propertyAddress", page.url, page.scrollY),
         !.bedInfo = Val("bedInfo", page.url, page.scrollY),
         !.availability = Val("availability", page.url, page.scrollY)],
      page) }

\* scrapeContactInfo with the click on 'view all hours' outside a try/catch:
\* its failure leaves the extractor
scrapeContactInfoClickThrows(page) ==
  { Outcome(FALSE, "query", Absent, page),
    Outcome(FALSE, "evaluate", Absent, page),
    Outcome(FALSE, "click", Absent, page),
    Outcome(TRUE, "", Val("contactInfo", page.url, page.scrollY), page) }

\* scrapeContactInfo: page.$ for the 'view all hours' control; when it is there
\* a click whose failure is ignored and a 250 ms delay; then one page.evaluate
scrapeContactInfo(page) ==
  { Outcome(FALSE, "query", Absent, page),
    Outcome(FALSE, "evaluate", Absent, page),
    Outcome(TRUE, "click", Val("contactInfo", page.url, page.scrollY), page),
    Outcome(TRUE, "", Val("contactInfo", page.url, page.scrollY), page) }

\* scrapeAmenities: window.scrollBy(0, 1200), a 200 ms delay, one page.evaluate
scrapeAmenities(page) ==
  LET p == [page EXCEPT !.scrollY = @ + ScrollStep] IN
  { Outcome(FALSE, "scroll", Absent, page),
    Outcome(FALSE, "evaluate", Absent, p),
    Outcome(TRUE, "", Val("amenities", p.url, p.scrollY), p) }

\* scrapeFeesAndPolicies: window.scrollBy(0, 1200); page.$ for the all-in
\* pricing toggle; when it is there a click whose failure is not caught and a
\* 400 ms delay; then one page.evaluate
scrapeFeesAndPolicies(page) ==
  LET p == [page EXCEPT !.scrollY = @ + ScrollStep] IN
  { Outcome(FALSE, "scroll", Absent, page),
    Outcome(FALSE, "query", Absent, p),
    Outcome(FALSE, "click", Absent, p),
    Outcome(FALSE, "evaluate", Absent, p),
    Outcome(TRUE, "", Val("feesAndPolicies", p.url, p.scrollY), p) }

\* Invocation x has made its lookup of url u (a row inserted now is one its
\* lookup did not see); x is about to look up the url u of its last invocation
Looked(x, u) == call[x].url = u /\ call[x].pc \notin {"idle", "lookup"}
Waiting(x, u) == call[x].url = u /\ prev[x].url = u /\ call[x].pc = "lookup"

\* The assembly leaves feesAndPolicies out
AssembleDropsFees(locals) ==
  [locals.availabilityData EXCEPT
     !.contactInfo = locals.contactInfo,
     !.amenities = locals.amenities]

\* const result = { ...availabilityData, contactInfo, amenities, feesAndPolicies }
Assemble(locals) ==
  [locals.availabilityData EXCEPT
     !.contactInfo = locals.contactInfo,
     !.amenities = locals.amenities,
     !.feesAndPolicies = locals.feesAndPolicies]

\* ------------------------------------------------------------------ actions
\* A client calls scrapeApartmentData(u, user)
Invoke(c, u) ==
  /\ call[c].pc \in {"idle", "done"}
  /\ started < MaxStarts
  /\ started' = started + 1
  /\ call' = Set(c, [IdleCall EXCEPT !.pc = "lookup", !.url = u])
  /\ log' = [log EXCEPT ![c] = <<>>]
  /\ prev' = [prev EXCEPT ![c] = IF call[c].pc = "done"
                                    THEN Summary(call[c]) ELSE @]
  /\ UNCHANGED <<listings, browsers, faults, job>>

\* The lookup with its error thrown to the caller instead of logged
CacheLookupThrows(c) ==
  /\ call[c].pc = "lookup"
  /\ log' = Logged(c, "lookup")
  /\ \E existingListing \in {Single(listings, call[c].url), LookupError} :
       /\ IF existingListing.error = "OTHER" THEN Fault ELSE NoFault
       /\ IF IsCached(existingListing)
            THEN Settle(c, [call[c] EXCEPT !.hit = TRUE], "returned",
                        existingListing.data)
            ELSE IF existingListing.error = "OTHER"
              THEN Settle(c, [call[c] EXCEPT !.error = "lookup",
                                !.fetchError = "OTHER", !.failed = {"lookup"}],
                          "raised", NoData)
              ELSE call' = Set(c, [call[c] EXCEPT !.pc = "launch",
                                     !.fetchError = existingListing.error])
  /\ UNCHANGED <<listings, browsers, started, prev, job>>

\* The lookup with the `return` of the cached data missing
CacheLookupNoReturn(c) ==
  /\ call[c].pc = "lookup"
  /\ log' = Logged(c, "lookup")
  /\ \E existingListing \in {Single(listings, call[c].url), LookupError} :
       /\ IF existingListing.error = "OTHER" THEN Fault ELSE NoFault
       /\ call' = Set(c, [call[c] EXCEPT !.pc = "launch",
                     !.hit = IsCached(existingListing),
                     !.fetchError = existingListing.error,
                     !.failed = IF existingListing.error = "OTHER"
                                  THEN {"lookup"} ELSE {}])
  /\ UNCHANGED <<listings, browsers, started, prev, job>>

\* await supabaseClient.from('listings').select('data').eq('url', url).single()
\* and the two ifs after it: a warning for an error other than PGRST116, and
\* the return of the cached data.
CacheLookup(c) ==
  /\ call[c].pc = "lookup"
  /\ log' = Logged(c, "lookup")
  /\ \E existingListing \in {Single(listings, call[c].url), LookupError} :
       /\ IF existingListing.error = "OTHER" THEN Fault ELSE NoFault
       /\ IF IsCached(existingListing)
            THEN Settle(c, [call[c] EXCEPT !.hit = TRUE], "returned",
                        existingListing.data)
            ELSE call' = Set(c, [call[c] EXCEPT !.pc = "launch",
                        !.fetchError = existingListing.error,
                        !.failed = IF existingListing.error = "OTHER"
                                     THEN {"lookup"} ELSE {}])
  /\ UNCHANGED <<listings, browsers, started, prev, job>>

\* const browser = await puppeteer.launch(...): before the try block, so a
\* failure leaves the method at once
Launch(c) ==
  /\ call[c].pc = "launch"
  /\ log' = Logged(c, "launch")
  /\ \/ /\ NoFault
        /\ browsers' = browsers \cup {c}
        /\ call' = Set(c, [call[c] EXCEPT !.pc = "newPage", !.browser = c])
     \/ /\ Fault
        /\ Settle(c, [call[c] EXCEPT !.error = "launch",
                                     !.failed = @ \cup {"launch"}],
                  "raised", NoData)
        /\ UNCHANGED browsers
  /\ UNCHANGED <<listings, started, prev, job>>

\* const page = await browser.newPage()
NewPage(c) ==
  /\ call[c].pc = "newPage"
  /\ log' = Logged(c, "newPage")
  /\ \/ NoFault /\ call' = Set(c, [call[c] EXCEPT !.pc = "goto"])
     \/ Fault /\ ThrowInTry(c, "newPage")
  /\ UNCHANGED <<listings, browsers, started, prev, job>>

\* The navigation tried again after a failure
GotoRetries(c) ==
  /\ call[c].pc = "goto"
  /\ log' = Logged(c, "goto")
  /\ \/ /\ NoFault
        /\ call' = Set(c, [call[c] EXCEPT !.pc = "availability",
                  !.page = [NoPage EXCEPT !.loaded = TRUE,
                                          !.url = call[c].url]])
     \/ Fault /\ call' = Set(c, [call[c] EXCEPT !.failed = @ \cup {"goto"}])
  /\ UNCHANGED <<listings, browsers, started, prev, job>>

\* One page shared by the calls in flight: the navigation of a call moves the
\* page every other call is reading
GotoSharedPage(c) ==
  /\ call[c].pc = "goto"
  /\ log' = Logged(c, "goto")
  /\ \/ /\ NoFault
        /\ call' = [x \in Calls |->
             IF x = c
               THEN [call[c] EXCEPT !.pc = "availability",
                       !.page = [NoPage EXCEPT !.loaded = TRUE,
                                               !.url = call[c].url]]
               ELSE IF call[x].page.loaded /\ call[x].pc # "done"
                 THEN [call[x] EXCEPT !.page.url = call[c].url]
                 ELSE call[x]]
     \/ Fault /\ ThrowInTry(c, "goto")
  /\ UNCHANGED <<listings, browsers, started, prev, job>>

\* await page.goto(url, { waitUntil: 'domcontentloaded' }) and the read of
\* the loaded page's title for the log (await page.title()): the navigation
Goto(c) ==
  /\ call[c].pc = "goto"
  /\ log' = Logged(c, "goto")
  /\ \/ /\ NoFault
        /\ call' = Set(c, [call[c] EXCEPT !.pc = "availability",
                  !.page = [NoPage EXCEPT !.loaded = TRUE,
                                          !.url = call[c].url]])
     \/ Fault /\ ThrowInTry(c, "goto")
  /\ UNCHANGED <<listings, browsers, started, prev, job>>

\* An extractor ending with outcome o: a failure at one of its awaits
Faulty(o) == IF o.why = "" THEN NoFault ELSE Fault

\* The Availability extractor in a try/catch of its own, like the others
ScrapeAvailabilityCaught(c) ==
  /\ call[c].pc = "availability"
  /\ log' = Logged(c, "availability")
  /\ \E o \in scrapeAvailabilityData(call[c].page) :
       /\ Faulty(o)
       /\ call' = Set(c, [call[c] EXCEPT !.pc = "contact", !.page = o.page,
                  !.availabilityData = IF o.ok THEN o.value ELSE @,
                  !.failed = IF o.ok THEN @ ELSE @ \cup {"availability"}])
  /\ UNCHANGED <<listings, browsers, started, prev, job>>

\* const availabilityData = await this.scrapeAvailabilityData(page): not in a
\* try of its own, so a failure goes to the finally block
ScrapeAvailability(c) ==
  /\ call[c].pc = "availability"
  /\ log' = Logged(c, "availability")
  /\ \E o \in scrapeAvailabilityData(call[c].page) :
       /\ Faulty(o)
       /\ IF o.ok
            THEN call' = Set(c, [call[c] EXCEPT !.pc = "contact",
                                !.availabilityData = o.value, !.page = o.page])
            ELSE ThrowInTry(c, "availability")
  /\ UNCHANGED <<listings, browsers, started, prev, job>>

\* The Contact Info extractor started while the Availability extractor is
\* still running on the page
ScrapeContactOverlaps(c) ==
  /\ \/ call[c].pc = "contact"
     \/ /\ call[c].pc = "availability"
        /\ \A i \in 1..Len(log[c]) : log[c][i] # "contact"
  /\ log' = Logged(c, "contact")
  /\ \E o \in scrapeContactInfo(call[c].page) :
       /\ Faulty(o)
       /\ call' = Set(c, [call[c] EXCEPT
                  !.pc = IF @ = "contact" THEN "amenities" ELSE @,
                  !.page = o.page,
                  !.contactInfo = IF o.ok THEN o.value ELSE @,
                  !.clicks = IF o.why = "click" THEN @ \cup {"hours"} ELSE @,
                  !.failed = IF o.ok THEN @ ELSE @ \cup {"contact"}])
  /\ UNCHANGED <<listings, browsers, started, prev, job>>

\* try { contactInfo = await this.scrapeContactInfo(page) } catch { warn }
ScrapeContact(c) ==
  /\ call[c].pc = "contact"
  /\ log' = Logged(c, "contact")
  /\ \E o \in scrapeContactInfo(call[c].page) :
       /\ Faulty(o)
       /\ call' = Set(c, [call[c] EXCEPT !.pc = "amenities", !.page = o.page,
                  !.contactInfo = IF o.ok THEN o.value ELSE @,
                  !.clicks = IF o.why = "click" THEN @ \cup {"hours"} ELSE @,
                  !.failed = IF o.ok THEN @ ELSE @ \cup {"contact"}])
  /\ UNCHANGED <<listings, browsers, started, prev, job>>

\* Amenities and Fees & Policies in one try block: a failure of the first
\* skips the second
ScrapeAmenitiesSkipsFees(c) ==
  /\ call[c].pc = "amenities"
  /\ log' = Logged(c, "amenities")
  /\ \E o \in scrapeAmenities(call[c].page) :
       /\ Faulty(o)
       /\ call' = Set(c, [call[c] EXCEPT
                  !.pc = IF o.ok THEN "fees" ELSE "insert", !.page = o.page,
                  !.amenities = IF o.ok THEN o.value ELSE @,
                  !.failed = IF o.ok THEN @ ELSE @ \cup {"amenities"}])
  /\ UNCHANGED <<listings, browsers, started, prev, job>>

\* try { amenities = await this.scrapeAmenities(page) } catch { warn }
ScrapeAmenities(c) ==
  /\ call[c].pc = "amenities"
  /\ log' = Logged(c, "amenities")
  /\ \E o \in scrapeAmenities(call[c].page) :
       /\ Faulty(o)
       /\ call' = Set(c, [call[c] EXCEPT !.pc = "fees", !.page = o.page,
                  !.amenities = IF o.ok THEN o.value ELSE @,
                  !.failed = IF o.ok THEN @ ELSE @ \cup {"amenities"}])
  /\ UNCHANGED <<listings, browsers, started, prev, job>>

\* The Fees & Policies extractor without its try/catch
ScrapeFeesUncaught(c) ==
  /\ call[c].pc = "fees"
  /\ log' = Logged(c, "fees")
  /\ \E o \in scrapeFeesAndPolicies(call[c].page) :
       /\ Faulty(o)
       /\ IF o.ok
            THEN call' = Set(c, [call[c] EXCEPT !.pc = "insert",
                           !.page = o.page, !.feesPage = call[c].page,
                           !.feesAndPolicies = o.value])
            ELSE ThrowInTry(c, "fees")
  /\ UNCHANGED <<listings, browsers, started, prev, job>>

\* try { feesAndPolicies = await this.scrapeFeesAndPolicies(page) } catch { warn }
ScrapeFees(c) ==
  /\ call[c].pc = "fees"
  /\ log' = Logged(c, "fees")
  /\ \E o \in scrapeFeesAndPolicies(call[c].page) :
       /\ Faulty(o)
       /\ call' = Set(c, [call[c] EXCEPT !.pc = "insert", !.page = o.page,
                  !.feesPage = call[c].page,
                  !.feesAndPolicies = IF o.ok THEN o.value ELSE @,
                  !.clicks = IF o.why = "click" THEN @ \cup {"pricing"} ELSE @,
                  !.failed = IF o.ok THEN @ ELSE @ \cup {"fees"}])
  /\ UNCHANGED <<listings, browsers, started, prev, job>>

\* The insert storing availabilityData instead of the assembled result
InsertStoresAvailability(c) ==
  /\ call[c].pc = "insert"
  /\ log' = Logged(c, "insert")
  /\ LET result == Assemble(call[c]) IN
     \/ /\ NoFault
        /\ listings' = [listings EXCEPT
                          ![call[c].url] = Append(@, call[c].availabilityData)]
        /\ call' = [x \in Calls |->
                      IF x = c
                        THEN [call[c] EXCEPT !.pc = "close", !.result = result,
                                !.stored = TRUE, !.pending = "return"]
                        ELSE [call[x] EXCEPT !.dirty = @ \/ Looked(x, call[c].url)]]
        /\ prev' = [x \in Calls |->
                      [prev[x] EXCEPT !.dirty = @ \/ Waiting(x, call[c].url)]]
     \/ /\ Fault
        /\ UNCHANGED <<listings, prev>>
        /\ call' = Set(c, [call[c] EXCEPT !.pc = "close", !.result = result,
                              !.insertError = "error", !.pending = "return",
                              !.failed = @ \cup {"insert"}])
  /\ UNCHANGED <<browsers, started, job>>

\* The insert with insertError thrown instead of logged
InsertThrows(c) ==
  /\ call[c].pc = "insert"
  /\ log' = Logged(c, "insert")
  /\ LET result == Assemble(call[c]) IN
     \/ /\ NoFault
        /\ listings' = [listings EXCEPT ![call[c].url] = Append(@, result)]
        /\ call' = [x \in Calls |->
                      IF x = c
                        THEN [call[c] EXCEPT !.pc = "close", !.result = result,
                                !.stored = TRUE, !.pending = "return"]
                        ELSE [call[x] EXCEPT !.dirty = @ \/ Looked(x, call[c].url)]]
        /\ prev' = [x \in Calls |->
                      [prev[x] EXCEPT !.dirty = @ \/ Waiting(x, call[c].url)]]
     \/ /\ Fault
        /\ UNCHANGED <<listings, prev>>
        /\ call' = Set(c, [call[c] EXCEPT !.pc = "close", !.result = result,
                              !.insertError = "error", !.pending = "throw",
                              !.error = "insert",
                              !.failed = @ \cup {"insert"}])
  /\ UNCHANGED <<browsers, started, job>>

\* The assembly of result, await supabaseClient.from('listings').insert(...),
\* the warning for insertError, and `return result` (which runs the finally
\* block before the promise settles).  The client reports a failure in
\* insertError; a successful insert adds a row, whatever rows the address has.
Insert(c) ==
  /\ call[c].pc = "insert"
  /\ log' = Logged(c, "insert")
  /\ LET result == Assemble(call[c]) IN
     \/ /\ NoFault
        /\ listings' = [listings EXCEPT ![call[c].url] = Append(@, result)]
        /\ call' = [x \in Calls |->
                      IF x = c
                        THEN [call[c] EXCEPT !.pc = "close", !.result = result,
                                !.stored = TRUE, !.pending = "return"]
                        ELSE [call[x] EXCEPT !.dirty = @ \/ Looked(x, call[c].url)]]
        /\ prev' = [x \in Calls |->
                      [prev[x] EXCEPT !.dirty = @ \/ Waiting(x, call[c].url)]]
     \/ /\ Fault
        /\ UNCHANGED <<listings, prev>>
        /\ call' = Set(c, [call[c] EXCEPT !.pc = "close", !.result = result,
                              !.insertError = "error", !.pending = "return",
                              !.failed = @ \cup {"insert"}])
  /\ UNCHANGED <<browsers, started, job>>

\* browser.close() after the try block instead of in a finally: skipped when
\* an error is pending
CloseOnReturnOnly(c) ==
  /\ call[c].pc = "close"
  /\ log' = Logged(c, "close")
  /\ browsers' = IF call[c].pending = "return"
                   THEN browsers \ {call[c].browser} ELSE browsers
  /\ IF call[c].pending = "return"
       THEN Settle(c, call[c], "returned", call[c].result)
       ELSE Settle(c, call[c], "raised", NoData)
  /\ UNCHANGED <<listings, started, faults, prev, job>>

\* finally { await browser.close() }, then the promise settles with the
\* pending return value or the pending error.  browser.close() ends the
\* process: it is not a step that fails.
Close(c) ==
  /\ call[c].pc = "close"
  /\ log' = Logged(c, "close")
  /\ browsers' = browsers \ {call[c].browser}
  /\ IF call[c].pending = "return"
       THEN Settle(c, call[c], "returned", call[c].result)
       ELSE Settle(c, call[c], "raised", NoData)
  /\ UNCHANGED <<listings, started, faults, prev, job>>

Next ==
  \/ \E c \in Calls, u \in Urls : Invoke(c, u)
  \/ \E c \in Calls : CacheLookup(c)
  \/ \E c \in Calls : Launch(c)
  \/ \E c \in Calls : NewPage(c)
  \/ \E c \in Calls : Goto(c)
  \/ \E c \in Calls : ScrapeAvailability(c)
  \/ \E c \in Calls : ScrapeContact(c)
  \/ \E c \in Calls : ScrapeAmenities(c)
  \/ \E c \in Calls : ScrapeFees(c)
  \/ \E c \in Calls : Insert(c)
  \/ \E c \in Calls : Close(c)

Spec == Init /\ [][Next]_vars

\* ------------------------------------------------------------------ strings
\* The functions run inside the page work on strings.  A string is a sequence
\* of tokens: whitespace characters and words (a word is text with no
\* whitespace in it, and is never empty); '' is <<>>.  null and undefined are
\* Null, which is no string: its one token is the empty word.
Whitespace == {" ", "\t"}
Null == <<"">>

\* The falsy strings of an `a || b` or an `if (a)`: null, undefined and ''
Falsy(s) == s = Null \/ s = <<>>
Or(a, b) == IF Falsy(a) THEN b ELSE a

RECURSIVE TrimStart(_)
TrimStart(s) ==
  IF s # <<>> /\ Head(s) \in Whitespace THEN TrimStart(Tail(s)) ELSE s

RECURSIVE TrimEnd(_)
TrimEnd(s) ==
  IF s # <<>> /\ s[Len(s)] \in Whitespace
    THEN TrimEnd(SubSeq(s, 1, Len(s) - 1)) ELSE s

\* String.prototype.trim()
Trim(s) == TrimEnd(TrimStart(s))

\* .replace(/\s+/g, ' '): every maximal run of whitespace becomes one space
RECURSIVE Collapse(_)
Collapse(s) ==
  IF s = <<>> THEN <<>>
  ELSE IF Head(s) \in Whitespace
    THEN <<" ">> \o Collapse(TrimStart(s))
    ELSE <<Head(s)>> \o Collapse(Tail(s))

\* clean: (s ?? '').replace(/\s+/g, ' ').trim()
clean(input) == IF input = Null THEN <<>> ELSE Trim(Collapse(input))

\* Array.prototype.map
Map(f(_), s) == [i \in 1..Len(s) |-> f(s[i])]

\* ------------------------------------------------------------------ fees page
\* The document as the page.evaluate of scrapeFeesAndPolicies reads it.
\*   tabNav, buttons: the tab-button group and its button[role='tab'] elements,
\*     each with its textContent, its id and its aria-controls attribute;
\*   panels: the elements with an id or the role tabpanel, in document order,
\*     each with its id, the textContent of the element its aria-labelledby
\*     names (Null when there is none), whether "#pricingView
\*     [role='tabpanel']" selects it, and its .feesPoliciesCard elements;
\*   details: the .detailsContainer .feesPoliciesCard.with-bullets-card
\*     elements.
\* A card element has the textContent of its first .header-column, of its
\* first .component-header .header-column and of its first .comments (Null
\* when there is none) and its list items; a list item says whether it holds a
\* .header-column, whether it is a comment item, and has the textContent of
\* its name column, of its .column-right and of its tooltip.
PetsId == <<"fees-policies-pets-tab">>
ParkingId == <<"fees-policies-parking-tab">>
RequiredFeesId == <<"fees-policies-required-fees-tab">>
StorageId == <<"fees-policies-storage-tab">>

\* The four fixed panels in the order the fallback looks them up, with the
\* tab names it gives them
FixedPanels ==
  << [id |-> PetsId, tab |-> <<"Pets">>],
     [id |-> ParkingId, tab |-> <<"Parking">>],
     [id |-> RequiredFeesId, tab |-> <<"Required", " ", "Fees">>],
     [id |-> StorageId, tab |-> <<"Storage">>] >>

\* getTooltipText(container)
getTooltipText(container) == clean(Or(container.tooltip, <<>>))

\* The rows of a card: the list items that hold no .header-column, are no
\* comment and have a name or a value
parseRow(li) ==
  [name |-> clean(Or(li.left, <<>>)),
   value |-> clean(Or(li.right, <<>>)),
   tooltip |-> Or(getTooltipText(li), Null)]

IsRow(li) ==
  /\ ~li.isHeader
  /\ ~li.isComment
  /\ ~(Falsy(clean(Or(li.left, <<>>))) /\ Falsy(clean(Or(li.right, <<>>))))

\* parseCard(cardEl)
parseCard(cardEl) ==
  [header |-> Or(clean(cardEl.headerColumn),
                 Or(clean(cardEl.componentHeader), <<>>)),
   rows |-> Map(parseRow, SelectSeq(cardEl.items, IsRow)),
   comments |-> Or(clean(Or(cardEl.comments, <<>>)), Null)]

\* The filter keeps the cards with a header or with rows only
CardFilterNoComments(c) == ~Falsy(c.header) \/ Len(c.rows) > 0

\* (c) => c.header || c.rows.length || (c.comments && c.comments.length)
CardFilter(c) ==
  \/ ~Falsy(c.header)
  \/ Len(c.rows) > 0
  \/ (~Falsy(c.comments) /\ Len(c.comments) > 0)

\* parseTabPanel(panelEl, tabName)
parseTabPanel(panelEl, tabName) ==
  [tab |-> tabName,
   cards |-> SelectSeq(Map(parseCard, panelEl.cards), CardFilter)]

\* parseDetails(): the bullet cards with a header or an item
parseDetailsCard(card) ==
  [header |-> clean(card.header),
   items |-> SelectSeq(Map(clean, card.columns), LAMBDA t : ~Falsy(t))]

parseDetails(dom) ==
  SelectSeq(Map(parseDetailsCard, dom.details),
            LAMBDA d : ~Falsy(d.header) \/ Len(d.items) > 0)

\* document.getElementById(id) / document.querySelector('#' + id): the place
\* in dom.panels of the first element with that id, 0 when there is none
ById(dom, id) ==
  IF \E i \in 1..Len(dom.panels) : dom.panels[i].id = id
    THEN CHOOSE i \in 1..Len(dom.panels) :
           /\ dom.panels[i].id = id
           /\ \A j \in 1..(i - 1) : dom.panels[j].id # id
    ELSE 0

\* The numbers of the set S in increasing order
Ascending(S) ==
  [k \in 1..Cardinality(S) |->
     CHOOSE i \in S : Cardinality({j \in S : j < i}) = k - 1]

\* The tab-button loop: a tab for every button whose aria-controls names an
\* element of the document.  from is the place of the panel in dom.panels.
PrimaryTabs(dom, tabButtons) ==
  LET panelId(btn) == Or(btn.controls, <<>>)
      tabName(btn) == clean(Or(btn.text, Or(btn.id, panelId(btn))))
      panel(btn) == IF Falsy(panelId(btn)) THEN 0 ELSE ById(dom, panelId(btn))
      found == Ascending({i \in 1..Len(tabButtons) :
                            panel(tabButtons[i]) # 0})
  IN [k \in 1..Len(found) |->
        [from |-> panel(tabButtons[found[k]]),
         tab |-> tabName(tabButtons[found[k]])]]

\* The fallback tries the fixed panels in another order
SecondaryTabsStorageFirst(dom) ==
  LET order == <<4, 1, 2, 3>>
      found == SelectSeq(order, LAMBDA i : ById(dom, FixedPanels[i].id) # 0)
  IN [k \in 1..Len(found) |->
        [from |-> ById(dom, FixedPanels[found[k]].id),
         tab |-> FixedPanels[found[k]].tab]]

\* The fallback: the four fixed panels that are in the document
SecondaryTabs(dom) ==
  LET found == Ascending({i \in 1..Len(FixedPanels) :
                            ById(dom, FixedPanels[i].id) # 0})
  IN [k \in 1..Len(found) |->
        [from |-> ById(dom, FixedPanels[found[k]].id),
         tab |-> FixedPanels[found[k]].tab]]

\* The scan of "#pricingView [role='tabpanel']"
TertiaryTabs(dom) ==
  LET found == Ascending({i \in 1..Len(dom.panels) : dom.panels[i].tabpanel})
      label(p) == Or(clean(Or(p.labelledby, <<>>)), clean(Or(p.id, <<>>)))
  IN [k \in 1..Len(found) |->
        [from |-> found[k],
         tab |-> Or(label(dom.panels[found[k]]),
                    <<"Fees/Policies">>)]]

\* The tabs of the document: which panel each tab is parsed from, under which
\* name.  The fallbacks are in the else branch of `if (tabButtons.length)`.
TabSources(dom) ==
  LET tabButtons == IF dom.tabNav THEN dom.buttons ELSE <<>> IN
  IF Len(tabButtons) > 0
    THEN PrimaryTabs(dom, tabButtons)
    ELSE IF Len(SecondaryTabs(dom)) > 0
      THEN SecondaryTabs(dom)
      ELSE TertiaryTabs(dom)

\* The value of the page.evaluate of scrapeFeesAndPolicies
FeesEvaluate(dom) ==
  [tabs |-> Map(LAMBDA t : parseTabPanel(dom.panels[t.from], t.tab),
                TabSources(dom)),
   details |-> parseDetails(dom)]

\* ---- the documents the fees functions are run on
\* List items: one holding a .header-column, a comment, one whose columns are
\* blank, one with a name and a tooltip, one with a value only
ListItems ==
  { [isHeader |-> TRUE, isComment |-> FALSE, left |-> <<"Fee">>,
     right |-> Null, tooltip |-> Null],
    [isHeader |-> FALSE, isComment |-> TRUE, left |-> <<"Note">>,
     right |-> Null, tooltip |-> Null],
    [isHeader |-> FALSE, isComment |-> FALSE, left |-> <<" ">>,
     right |-> Null, tooltip |-> Null],
    [isHeader |-> FALSE, isComment |-> FALSE,
     left |-> <<"\t", "Dog", " ", " ", "Fee">>, right |-> Null,
     tooltip |-> <<"per", " ", "pet", " ">>],
    [isHeader |-> FALSE, isComment |-> FALSE, left |-> Null,
     right |-> <<"$50">>, tooltip |-> Null] }

ItemLists ==
  {<<>>} \cup {<<a>> : a \in ListItems} \cup {<<a, b>> : a, b \in ListItems}

\* The text of a header or of the comments: none, blank, or a word
CardTexts == {Null, <<" ", "\t">>, <<"x">>}

\* A card holds a .header-column when its component header or one of its list
\* items does
CardEls ==
  { c \in [headerColumn : CardTexts, componentHeader : CardTexts,
           comments : CardTexts, items : ItemLists] :
      (c.componentHeader # Null \/ \E i \in 1..Len(c.items) : c.items[i].isHeader)
        => c.headerColumn # Null }

CardEl(header, comments, items) ==
  [headerColumn |-> header, componentHeader |-> Null, comments |-> comments,
   items |-> items]

\* Cards to put side by side: with nothing, with comments only, with a header
\* only, with one row only
SampleCards ==
  { CardEl(Null, Null, <<>>), CardEl(Null, <<"x">>, <<>>),
    CardEl(<<"x">>, Null, <<>>),
    CardEl(Null, Null, << [isHeader |-> FALSE, isComment |-> FALSE,
                            left |-> Null, right |-> <<"$50">>,
                            tooltip |-> Null] >>) }

PanelEl(id, labelledby, tabpanel, cards) ==
  [id |-> id, labelledby |-> labelledby, tabpanel |-> tabpanel, cards |-> cards]

\* The elements a document is made of: the four fixed panels, a panel with a
\* heading, a panel with an id only, a panel with neither, and an element that
\* is no tab panel
PanelEls ==
  << PanelEl(PetsId, Null, TRUE, <<CardEl(<<"Pet", " ", "Fees">>, Null, <<>>)>>),
     PanelEl(ParkingId, Null, TRUE, <<CardEl(Null, Null, <<>>)>>),
     PanelEl(RequiredFeesId, Null, TRUE, <<>>),
     PanelEl(StorageId, Null, TRUE, <<CardEl(Null, <<"x">>, <<>>)>>),
     PanelEl(<<"utilities-tab">>, <<" ", "Utilities", "\t">>, TRUE,
             <<CardEl(<<"Water">>, Null, <<>>)>>),
     PanelEl(<<"other-tab">>, Null, TRUE, <<>>),
     PanelEl(<<>>, Null, TRUE, <<>>),
     PanelEl(<<"promo">>, Null, FALSE, <<>>) >>

\* The elements of PanelEls at the places S, in that order or in the reverse
PanelLists ==
  UNION { { [k \in 1..Cardinality(S) |-> PanelEls[Ascending(S)[k]]],
            [k \in 1..Cardinality(S) |->
               PanelEls[Ascending(S)[Cardinality(S) + 1 - k]]] } :
          S \in SUBSET (1..Len(PanelEls)) }

\* Tab buttons: of the pets panel; with a blank text; with no text but an id;
\* with neither, naming an element that is not in the document
TabButtons ==
  { [text |-> <<"Pets">>, id |-> <<"pets-btn">>, controls |-> PetsId],
    [text |-> <<" ">>, id |-> <<"u-btn">>, controls |-> <<"utilities-tab">>],
    [text |-> <<>>, id |-> <<"other-btn">>, controls |-> <<"other-tab">>],
    [text |-> <<>>, id |-> <<>>, controls |-> <<"missing">>] }

ButtonLists ==
  {<<>>} \cup {<<a>> : a \in TabButtons} \cup {<<a, b>> : a, b \in TabButtons}

DetailsLists ==
  { <<>>,
    << [header |-> Null, columns |-> << <<" ">> >>],
       [header |-> <<"Pet", " ", " ", "Policy">>,
        columns |-> << <<" ">>, <<"Dogs", " ">> >>] >> }

FeesDom(tabNav, buttons, panels, details) ==
  [tabNav |-> tabNav, buttons |-> buttons, panels |-> panels,
   details |-> details]

\* Documents that vary in their tabs (their panels one of panelLists), and
\* documents with the pets panel only that vary in its cards
FeesDoms(panelLists) ==
  { FeesDom(TRUE, b, p, d) : b \in ButtonLists, p \in panelLists,
                             d \in DetailsLists }
  \cup { FeesDom(FALSE, <<>>, p, d) : p \in panelLists, d \in DetailsLists }
  \cup { FeesDom(FALSE, <<>>, <<PanelEl(PetsId, Null, TRUE, <<c>>)>>, <<>>) :
           c \in CardEls }
  \cup { FeesDom(FALSE, <<>>, <<PanelEl(PetsId, Null, TRUE, <<c, d>>)>>, <<>>) :
           c \in SampleCards, d \in SampleCards }

\* ---- the run of the fees functions on one document
InitFees ==
  /\ AtRest
  /\ job \in { [pc |-> "evaluate", dom |-> d, from |-> <<>>,
                 out |-> [tabs |-> <<>>, details |-> <<>>]] :
               d \in FeesDoms(PanelLists) }

\* const data = await page.evaluate(() => { ... return { tabs, details } })
\* from keeps, for every tab, the place of the panel it was parsed from.
FeesPageEvaluate ==
  /\ job.pc = "evaluate"
  /\ job' = [job EXCEPT !.pc = "done",
                        !.from = Map(LAMBDA t : t.from, TabSources(job.dom)),
                        !.out = FeesEvaluate(job.dom)]
  /\ UNCHANGED service

NextFees == FeesPageEvaluate

SpecFees == InitFees /\ [][NextFees]_vars

\* ------------------------------------------------------------------ contact
\* An object that may be undefined: no object, or the object
NoObject == <<>>
Object(r) == <<r>>

\* .replace(/^Language:\s*/i, ''): the word 'Language:' at the start of the
\* string and the whitespace after it are removed
StripLanguage(s) ==
  IF s # <<>> /\ Head(s) = "Language:" THEN TrimStart(Tail(s)) ELSE s

\* With no .contactInfo the function returns an object with no officeHours
ContactEvaluateNoHours(dom) ==
  IF ~dom.root THEN
    [phone |-> NoObject, website |-> NoObject, language |-> Null,
     todaysHours |-> Null, officeHours |-> Null, logo |-> NoObject]
  ELSE
    LET phoneDigits == Or(IF dom.phoneBtn THEN dom.phoneData ELSE Null, Null)
        phoneFormatted ==
          clean(Or(IF dom.phoneBtn THEN dom.phoneSpan ELSE Null, <<>>))
    IN [phone |-> IF ~Falsy(phoneDigits) \/ ~Falsy(phoneFormatted)
                    THEN Object([formatted |-> Or(phoneFormatted, Null),
                                 digits |-> phoneDigits])
                    ELSE NoObject,
        website |-> IF dom.webA
                      THEN Object([url |-> dom.href,
                                   label |-> clean(Or(dom.webText, <<>>))])
                      ELSE NoObject,
        language |-> Or(clean(Or(IF dom.language = Null THEN Null
                                  ELSE StripLanguage(dom.language), <<>>)),
                        Null),
        todaysHours |-> Or(clean(Or(dom.todaysHours, <<>>)), Null),
        officeHours |-> Map(LAMBDA li : [days |-> clean(Or(li.days, <<>>)),
                                         hours |-> clean(Or(li.hours, <<>>))],
                            dom.officeHours),
        logo |-> IF dom.logoImg
                   THEN Object([url |-> dom.src,
                                alt |-> clean(Or(dom.alt, <<>>)),
                                width |-> dom.width, height |-> dom.height])
                   ELSE NoObject]

\* The value of the page.evaluate of scrapeContactInfo.  A key that is not in
\* the object and a key whose value is undefined are the same to a reader:
\* Null (NoObject for an object).  The document: root says whether .contactInfo
\* is there; phoneBtn, webA, logoImg whether those elements are; phoneData is
\* the phone-data attribute (Null when not set), phoneSpan, webText, language,
\* todaysHours the textContent of those elements (Null when there is none);
\* href, src, alt the properties of the link and of the image; width and
\* height those of the image, undefined when 0.
ContactEvaluate(dom) ==
  IF ~dom.root THEN
    [phone |-> NoObject, website |-> NoObject, language |-> Null,
     todaysHours |-> Null, officeHours |-> <<>>, logo |-> NoObject]
  ELSE
    LET phoneDigits == Or(IF dom.phoneBtn THEN dom.phoneData ELSE Null, Null)
        phoneFormatted ==
          clean(Or(IF dom.phoneBtn THEN dom.phoneSpan ELSE Null, <<>>))
    IN [phone |-> IF ~Falsy(phoneDigits) \/ ~Falsy(phoneFormatted)
                    THEN Object([formatted |-> Or(phoneFormatted, Null),
                                 digits |-> phoneDigits])
                    ELSE NoObject,
        website |-> IF dom.webA
                      THEN Object([url |-> dom.href,
                                   label |-> clean(Or(dom.webText, <<>>))])
                      ELSE NoObject,
        language |-> Or(clean(Or(IF dom.language = Null THEN Null
                                  ELSE StripLanguage(dom.language), <<>>)),
                        Null),
        todaysHours |-> Or(clean(Or(dom.todaysHours, <<>>)), Null),
        officeHours |-> Map(LAMBDA li : [days |-> clean(Or(li.days, <<>>)),
                                         hours |-> clean(Or(li.hours, <<>>))],
                            dom.officeHours),
        logo |-> IF dom.logoImg
                   THEN Object([url |-> dom.src,
                                alt |-> clean(Or(dom.alt, <<>>)),
                                width |-> dom.width, height |-> dom.height])
                   ELSE NoObject]

\* ---- the documents the contact function is run on
MaxTextLen == 4      \* tokens in the text of an element

Tokens == {"a", " ", "\t"}

\* The strings of at most n tokens
RECURSIVE TextsUpTo(_)
TextsUpTo(n) ==
  IF n = 0 THEN {<<>>}
  ELSE LET shorter == TextsUpTo(n - 1) IN
       shorter \cup {Append(s, t) : s \in {x \in shorter : Len(x) = n - 1},
                                    t \in Tokens}

Texts == TextsUpTo(MaxTextLen)

\* Values of the phone-data attribute: not set, empty, digits, and digits with
\* whitespace around and inside
PhoneData == {Null, <<>>, <<"555">>, <<" ", "555", " ", " ", "1234">>}

\* Which of the elements the contact block holds
ContactShapes == SUBSET {"phoneBtn", "webA", "language", "hours", "logoImg"}

\* The contact block of shape sh in which every text node reads t (the
\* language element with 'Language:' before it when prefixed) and the
\* phone-data attribute is a
ContactDom(sh, t, a, prefixed) ==
  [root |-> TRUE,
   phoneBtn |-> "phoneBtn" \in sh, phoneData |-> a, phoneSpan |-> t,
   webA |-> "webA" \in sh, href |-> <<"https://example.com/">>, webText |-> t,
   language |-> IF "language" \in sh
                  THEN (IF prefixed THEN <<"Language:">> ELSE <<>>) \o t
                  ELSE Null,
   todaysHours |-> IF "hours" \in sh THEN t ELSE Null,
   officeHours |-> IF "hours" \in sh
                     THEN << [days |-> t, hours |-> Null],
                             [days |-> <<"Sat">>, hours |-> t] >>
                     ELSE <<>>,
   logoImg |-> "logoImg" \in sh, src |-> <<"https://example.com/logo.png">>,
   alt |-> t, width |-> Null, height |-> Null]

\* A document with no .contactInfo
NoContactDom == [ContactDom({}, <<>>, Null, FALSE) EXCEPT !.root = FALSE]

\* The documents whose text nodes read one of texts, and the one with no
\* contact block
ContactDoms(texts) ==
  { ContactDom(sh, t, a, p) : sh \in ContactShapes, t \in texts,
                              a \in PhoneData, p \in BOOLEAN }
  \cup { NoContactDom }

\* ---- the run of the contact function on one document
InitContact ==
  /\ AtRest
  /\ job \in { [pc |-> "evaluate", dom |-> d,
                out |-> ContactEvaluate(NoContactDom)] :
               d \in ContactDoms(Texts) }

\* return await page.evaluate(() => { ... }) of scrapeContactInfo
ContactPageEvaluate ==
  /\ job.pc = "evaluate"
  /\ job' = [job EXCEPT !.pc = "done", !.out = ContactEvaluate(job.dom)]
  /\ UNCHANGED service

NextContact == ContactPageEvaluate

SpecContact == InitContact /\ [][NextContact]_vars

\* ------------------------------------------------------------------ amenities
\* Array.from(new Set(arr)): the elements of arr without the repeats, each at
\* the place of its first occurrence
FromSet(arr) ==
  LET first == Ascending({i \in 1..Len(arr) :
                            \A j \in 1..(i - 1) : arr[j] # arr[i]})
  IN [k \in 1..Len(first) |-> arr[first[k]]]

\* Each element is kept at the place of its last occurrence
uniqKeepsLast(arr) ==
  LET full == SelectSeq(arr, LAMBDA s : ~Falsy(s))
      last == Ascending({i \in 1..Len(full) :
                           \A j \in (i + 1)..Len(full) : full[j] # full[i]})
  IN [k \in 1..Len(last) |-> full[last[k]]]

\* const uniq = (arr) => Array.from(new Set(arr.filter(Boolean)))
uniq(arr) == FromSet(SelectSeq(arr, LAMBDA s : ~Falsy(s)))

\* const dedupe = (arr) => Array.from(new Set(arr))
dedupe(arr) == FromSet(arr)

\* String.prototype.toLowerCase() on the words of the section titles
LowerWord(w) ==
  CASE w \in {"Community", "COMMUNITY"} -> "community"
    [] w \in {"Amenities", "AMENITIES"} -> "amenities"
    [] w = "Apartment" -> "apartment"
    [] w = "Features" -> "features"
    [] OTHER -> w

toLowerCase(s) == Map(LowerWord, s)

\* The section titles parseSectionByTitle is called with
CommunityTitle == <<"Community", " ", "Amenities">>
ApartmentTitle == <<"Apartment", " ", "Features">>

\* parseSectionByTitle(sectionTitleText).  dom.sections are the h3.sectionTitle
\* elements of the document in order, each with its textContent (heading) and,
\* from its parent element, the textContent of the icon labels and the spec
\* groups (the textContent of the group name, Null when there is none, and
\* of the items).
parseSectionByTitle(dom, sectionTitleText) ==
  LET matching == {i \in 1..Len(dom.sections) :
                     toLowerCase(clean(dom.sections[i].heading))
                       = toLowerCase(sectionTitleText)}
  IN IF matching = {} THEN NoObject
     ELSE
       LET container == dom.sections[Ascending(matching)[1]]
           icons == Map(LAMBDA n : clean(Or(n, <<>>)), container.icons)
           group(g) ==
             [header |-> clean(Or(g.header, <<>>)),
              items |-> Map(LAMBDA s : clean(Or(s, <<>>)), g.items)]
           parsed == SelectSeq(Map(group, container.groups),
                               LAMBDA g : ~Falsy(g.header) \/ Len(g.items) > 0)
       IN Object(
            [title |-> clean(Or(container.heading, sectionTitleText)),
             icons |-> uniq(icons),
             groups |-> Map(LAMBDA g : [header |-> g.header,
                                        items |-> uniq(g.items)], parsed)])

\* The value of the page.evaluate of scrapeAmenities
AmenitiesEvaluate(dom) ==
  [community |-> parseSectionByTitle(dom, CommunityTitle),
   apartment |-> parseSectionByTitle(dom, ApartmentTitle)]

\* The pass over the value after the page.evaluate: icons and the items of
\* every group through dedupe, for the sections that are there
DedupeSection(section) ==
  Map(LAMBDA sec : [sec EXCEPT
                      !.icons = dedupe(sec.icons),
                      !.groups = Map(LAMBDA g : [g EXCEPT
                                                   !.items = dedupe(g.items)],
                                     sec.groups)],
      section)

DedupeAmenities(amenities) ==
  [community |-> DedupeSection(amenities.community),
   apartment |-> DedupeSection(amenities.apartment)]

\* ---- the documents the amenities functions are run on
MaxItems == 4        \* icon labels of a section

\* Texts of a label or an item: empty, blank, and words with and without
\* whitespace around them
ItemTexts == {<<>>, <<" ">>, <<"A">>, <<"A", " ">>, <<"B">>, <<"C">>}

\* The sequences over S of length at most n
RECURSIVE SeqsUpTo(_, _)
SeqsUpTo(S, n) ==
  IF n = 0 THEN {<<>>}
  ELSE LET shorter == SeqsUpTo(S, n - 1) IN
       shorter \cup {Append(s, t) : s \in {x \in shorter : Len(x) = n - 1},
                                    t \in S}

IconLists == SeqsUpTo(ItemTexts, MaxItems)

GroupItemLists ==
  LET T == {<<>>, <<"A">>, <<" ", "A">>, <<"B">>} IN
  {<<>>} \cup {<<a>> : a \in T} \cup {<<a, b>> : a, b \in T}

GroupEls == [header : {Null, <<"Kitchen">>}, items : GroupItemLists]

GroupLists ==
  {<<>>} \cup {<<g>> : g \in GroupEls} \cup {<<g, h>> : g, h \in GroupEls}

SectionEl(heading, icons, groups) ==
  [heading |-> heading, icons |-> icons, groups |-> groups]

\* Headings of the community section as the site writes them, and one that is
\* not the title of a section
Headings ==
  { CommunityTitle, <<" ", "COMMUNITY", " ", "\t", "amenities", " ">>,
    <<"Nearby">> }

\* Documents with a community section that varies in its icons (one of
\* iconLists) or in its groups, after an apartment section or without one
AmenitiesDoms(iconLists) ==
  LET community ==
        { SectionEl(h, i, <<>>) : h \in Headings, i \in iconLists }
        \cup { SectionEl(h, <<>>, g) : h \in Headings, g \in GroupLists }
      apartment ==
        SectionEl(ApartmentTitle, << <<"C">>, <<"C">> >>,
                  << [header |-> Null, items |-> << <<"B">>, <<"B", " ">> >>] >>)
  IN { [sections |-> <<c>>] : c \in community }
     \cup { [sections |-> <<apartment, c>>] : c \in community }

\* ---- the run of the amenities functions on one document
InitAmenities ==
  /\ AtRest
  /\ job \in { [pc |-> "evaluate", dom |-> d,
                evaluated |-> AmenitiesEvaluate([sections |-> <<>>]),
                out |-> AmenitiesEvaluate([sections |-> <<>>])] :
               d \in AmenitiesDoms(IconLists) }

\* const amenities = await page.evaluate(...), the dedupe pass over it and
\* return amenities.  evaluated keeps the value of the page.evaluate.
AmenitiesPageEvaluate ==
  /\ job.pc = "evaluate"
  /\ job' = [job EXCEPT !.pc = "done",
                        !.evaluated = AmenitiesEvaluate(job.dom),
                        !.out = DedupeAmenities(AmenitiesEvaluate(job.dom))]
  /\ UNCHANGED service

NextAmenities == AmenitiesPageEvaluate

SpecAmenities == InitAmenities /\ [][NextAmenities]_vars

\* ------------------------------------------------------------------ mergePdfs
\* PdfService.mergePdfs(basePdfBuffer, additionalPdfBuffers, headers).  A
\* buffer is a PDF of some pages, or bytes PDFDocument.load rejects, or a PDF
\* whose pages copyPages cannot copy.  A page of the merged document names the
\* buffer it comes from (0 the base, i the i-th additional one), its number in
\* it, and the header text drawn on it (Null when none).
MaxDocs == 3         \* additional buffers of one merge

PdfBuffers ==
  { [kind |-> "pdf", pages |-> 1], [kind |-> "pdf", pages |-> 2],
    [kind |-> "corrupt", pages |-> 0], [kind |-> "nocopy", pages |-> 1] }

\* headers[i]: undefined (no headers, or an array too short), blank, a text
HeaderTexts == {Null, <<" ">>, <<" ", "Lease", " ">>}

\* The arguments of a merge of at most n additional buffers
MergeInputs(n) ==
  UNION { [base : PdfBuffers, additional : {a},
           headers : [1..Len(a) -> HeaderTexts]] :
          a \in SeqsUpTo(PdfBuffers, n) }

\* The pages of a loaded buffer
PagesOf(doc, buffer, header) ==
  [k \in 1..buffer.pages |-> [doc |-> doc, no |-> k, header |-> header]]

\* PDFDocument.load(buffer) and mergedPdf.copyPages(pdf, indices) both succeed
Loads(buffer) == buffer.kind # "corrupt"
Copies(buffer) == buffer.kind = "pdf"

InitMerge ==
  /\ AtRest
  /\ job \in { [pc |-> "base", base |-> m.base, additional |-> m.additional,
                headers |-> m.headers, i |-> 0, mergedPdf |-> <<>>,
                skipped |-> {}, outcome |-> "none", out |-> <<>>] :
               m \in MergeInputs(MaxDocs) }

\* PDFDocument.create(), the load of the base buffer, copyPages and addPage of
\* its pages; a failure goes to the outer catch: HttpException
MergeBase ==
  /\ job.pc = "base"
  /\ job' = IF Loads(job.base) /\ Copies(job.base)
              THEN [job EXCEPT !.pc = "additional", !.i = 1,
                               !.mergedPdf = PagesOf(0, job.base, Null)]
              ELSE [job EXCEPT !.pc = "done", !.outcome = "raised"]
  /\ UNCHANGED service

\* A failure on an additional buffer goes to the outer catch
MergeAdditionalRethrows ==
  /\ job.pc = "additional"
  /\ job.i <= Len(job.additional)
  /\ LET buffer == job.additional[job.i]
         header == job.headers[job.i]
         withHeader == ~Falsy(header) /\ ~Falsy(Trim(header))
     IN job' = IF Loads(buffer) /\ Copies(buffer)
                 THEN [job EXCEPT !.i = @ + 1,
                         !.mergedPdf = @ \o PagesOf(job.i, buffer,
                            IF withHeader THEN Trim(header) ELSE Null)]
                 ELSE [job EXCEPT !.pc = "done", !.outcome = "raised"]
  /\ UNCHANGED service

\* One turn of the loop over additionalPdfBuffers: the header drawn on every
\* page when headers[i] has text (addHeaderToPdf, which loads the buffer), the
\* load, copyPages and addPage of the pages; a failure of any of them is
\* caught, logged and the buffer is skipped
MergeAdditional ==
  /\ job.pc = "additional"
  /\ job.i <= Len(job.additional)
  /\ LET buffer == job.additional[job.i]
         header == job.headers[job.i]
         withHeader == ~Falsy(header) /\ ~Falsy(Trim(header))
     IN job' = IF Loads(buffer) /\ Copies(buffer)
                 THEN [job EXCEPT !.i = @ + 1,
                         !.mergedPdf = @ \o PagesOf(job.i, buffer,
                            IF withHeader THEN Trim(header) ELSE Null)]
                 ELSE [job EXCEPT !.i = @ + 1, !.skipped = @ \cup {job.i}]
  /\ UNCHANGED service

\* mergedPdf.save() after the loop and the return of the buffer
MergeSave ==
  /\ job.pc = "additional"
  /\ job.i > Len(job.additional)
  /\ job' = [job EXCEPT !.pc = "done", !.outcome = "returned",
                        !.out = job.mergedPdf]
  /\ UNCHANGED service

NextMerge == MergeBase \/ MergeAdditional \/ MergeSave

SpecMerge == InitMerge /\ [][NextMerge]_vars

\* ------------------------------------------------------------------ model cards
\* The floor-plan image of a model card (.pricingGridItem), as the function
\* given to page.evaluate by scrapeAvailabilityData resolves it.  A style
\* value is a sequence of tokens: "url(", a quote, the characters of the URL,
\* ")", or the keyword none.

QuoteChars == {"\"", "'"}

\* The positions from which /["']?\)/ matches: a closing parenthesis, or a
\* quote with the closing parenthesis right after it
Closings(s, from) ==
  {e \in from..Len(s) :
     \/ s[e] = ")"
     \/ s[e] \in QuoteChars /\ e < Len(s) /\ s[e + 1] = ")"}

Least(S) == CHOOSE e \in S : \A f \in S : e <= f

\* The first group of /url\(["']?(.*?)["']?\)/i matched at position at: the
\* optional quote is taken when there is one (and given back when nothing
\* matches after it), then the shortest text after which the pattern closes.
\* Null when the pattern does not match there.
GroupAt(s, at) ==
  LET p == at + 1
      quoted == p <= Len(s) /\ s[p] \in QuoteChars
      from == IF quoted /\ Closings(s, p + 1) # {} THEN p + 1 ELSE p
  IN IF s[at] # "url(" \/ Closings(s, from) = {} THEN Null
     ELSE SubSeq(s, from, Least(Closings(s, from)) - 1)

\* styleBg.match(/url\(["']?(.*?)["']?\)/i)?.[1]: the group of the leftmost
\* match, undefined when there is no match
styleUrlMatch(styleBg) ==
  LET starts == {at \in 1..Len(styleBg) : GroupAt(styleBg, at) # Null} IN
  IF starts = {} THEN Null ELSE GroupAt(styleBg, Least(starts))

\* imgDiv.style.backgroundImage: the declared background image as the
\* document gives it back, '' when the element declares none
backgroundImage(el) ==
  CASE el.style.kind = "unset" -> <<>>
    [] el.style.kind = "none" -> <<"none">>
    [] el.style.kind = "url" ->
         <<"url(">> \o el.style.quote \o el.style.url \o el.style.quote
           \o <<")">>

\* const image = styleUrlMatch?.[1] || dataBg || undefined, for the
\* .floorPlanButtonImage element of the card (NoObject when the card has none)
CardImage(imgDiv) ==
  LET styleBg == IF imgDiv = NoObject THEN <<>>
                 ELSE Or(backgroundImage(imgDiv[1]), <<>>)
      dataBg == IF imgDiv = NoObject THEN Null ELSE imgDiv[1].data
  IN Or(Or(styleUrlMatch(styleBg), dataBg), Null)

\* ---- the cards the image is resolved on
MaxUrlLen == 2       \* characters of an image URL

UrlChars == {"a", ")"}

ImageUrls(n) == SeqsUpTo(UrlChars, n)

\* The inline styles: no background image, the keyword none, or a URL, in
\* double or single quotes or, when it has no parenthesis, in none
ImageStyles(n) ==
  { [kind |-> "unset", url |-> Null, quote |-> <<>>],
    [kind |-> "none", url |-> Null, quote |-> <<>>] }
  \cup { [kind |-> "url", url |-> u, quote |-> q] :
         u \in ImageUrls(n), q \in {<<"\"">>, <<"'">>} }
  \cup { [kind |-> "url", url |-> u, quote |-> <<>>] :
         u \in {v \in ImageUrls(n) : \A i \in 1..Len(v) : v[i] # ")"} }

\* data-background-image: not there, empty, or a URL
DataAttributes == {Null, <<>>, <<"d">>}

ImgDivs(n) ==
  {NoObject} \cup {Object(e) : e \in [style : ImageStyles(n),
                                      data : DataAttributes]}

\* ---- the resolution of the image of one card
InitAvailability ==
  /\ AtRest
  /\ job \in { [pc |-> "evaluate", imgDiv |-> d, image |-> Null] :
               d \in ImgDivs(MaxUrlLen) }

AvailabilityPageEvaluate ==
  /\ job.pc = "evaluate"
  /\ job' = [job EXCEPT !.pc = "done", !.image = CardImage(job.imgDiv)]
  /\ UNCHANGED service

NextAvailability == AvailabilityPageEvaluate

SpecAvailability == InitAvailability /\ [][NextAvailability]_vars

\* ------------------------------------------------------------------ awaited steps
\* Every step of scrapeApartmentData is awaited and has no timeout of its own:
\* a step that never completes leaves the invocation where it is for good.

\* The positions at which an invocation awaits
Awaits ==
  {"lookup", "launch", "newPage", "goto", "availability", "contact",
   "amenities", "fees", "insert", "close"}

\* The step invocation c is awaiting never completes and never fails
Hang(c) ==
  /\ call[c].pc \in Awaits
  /\ call' = Set(c, [call[c] EXCEPT !.pc = "stalled"])
  /\ UNCHANGED <<listings, browsers, started, faults, log, prev, job>>

NextLive == Next \/ \E c \in Calls : Hang(c)

\* A step that can complete or fail does so in the end
Completes(c) ==
  /\ WF_vars(CacheLookup(c)) /\ WF_vars(Launch(c)) /\ WF_vars(NewPage(c))
  /\ WF_vars(Goto(c)) /\ WF_vars(ScrapeAvailability(c))
  /\ WF_vars(ScrapeContact(c)) /\ WF_vars(ScrapeAmenities(c))
  /\ WF_vars(ScrapeFees(c)) /\ WF_vars(Insert(c)) /\ WF_vars(Close(c))

\* The service at rest with one invocation and no failure of the budgets
\* already spent: whether an invocation settles does not depend on the others
InitLive ==
  /\ listings = [u \in Urls |-> <<>>]
  /\ call = [c \in Calls |-> IdleCall]
  /\ browsers = {}
  /\ started = 1
  /\ faults = 0
  /\ log = [c \in Calls |-> <<>>]
  /\ prev = [c \in Calls |-> NoPrev]
  /\ job = NoJob

SpecLive == InitLive /\ [][NextLive]_vars /\ \A c \in Calls : Completes(c)

\* ------------------------------------------------------------------ properties
InLog(c, op) == \E i \in 1..Len(log[c]) : log[c][i] = op

\* The steps of a call that misses the cache and runs to the end
FullLog ==
  <<"lookup", "launch", "newPage", "goto", "availability", "contact",
    "amenities", "fees", "insert", "close">>

\* Session acquisition and the Availability extractor
Fatal == {"launch", "newPage", "goto", "availability"}
BestEffort == {"contact", "amenities", "fees"}
Mandatory == {"propertyName", "propertyAddress", "bedInfo", "availability"}

FieldOf(op) ==
  CASE op = "contact" -> "contactInfo"
    [] op = "amenities" -> "amenities"
    [] op = "fees" -> "feesAndPolicies"

Done(c) == call[c].pc = "done"
InFlight(c) == call[c].pc \notin {"idle", "done"}

\* The lookup of slot c completes in this step
LookupStep(c) == call[c].pc = "lookup" /\ call'[c].pc # "lookup"

\* C1: when the cache lookup of a call returns a stored record (exactly one
\* row for the address and no lookup error), the call returns exactly that
\* record in that very step: no browser is launched, no extractor runs and no
\* cache write is attempted.
C1_CacheHitShortCircuits ==
  [][\A c \in Calls :
       (/\ LookupStep(c)
        /\ call'[c].fetchError # "OTHER"
        /\ Single(listings, call[c].url).found)
       => /\ call'[c].pc = "done"
          /\ call'[c].outcome = "returned"
          /\ call'[c].ret = listings[call[c].url][1]
          /\ log'[c] = <<"lookup">>
          /\ call'[c].browser = ""
          /\ browsers' = browsers
          /\ listings' = listings]_vars

C1_Witness ==
  \E c \in Calls :
    /\ Done(c) /\ call[c].hit
    /\ call[c].ret = listings[call[c].url][1]
    /\ call[c].ret.availability # Absent

\* The scenario of C2 in slot c: its previous invocation, on the same
\* address, missed the cache, failed in the Contact Info extractor only and
\* stored its record; the address had no record before (so it has one row
\* now); and the lookup of the invocation that followed did not fail.
C2_Scenario(c) ==
  /\ Done(c)
  /\ prev[c].url = call[c].url
  /\ prev[c].outcome = "returned"
  /\ ~prev[c].hit
  /\ prev[c].failed = {"contact"}
  /\ prev[c].stored
  /\ Len(listings[call[c].url]) = 1
  /\ "lookup" \notin call[c].failed

\* C2: in that scenario the first record has contactInfo absent and every
\* other field present, the cache holds exactly that record, and the next
\* extract returns it without launching a browser.
C2_PartialRecordCached ==
  \A c \in Calls :
    C2_Scenario(c)
    => /\ prev[c].ret.contactInfo = Absent
       /\ \A f \in Mandatory \cup {"amenities", "feesAndPolicies"} :
            prev[c].ret[f] # Absent
       /\ listings[call[c].url] = <<prev[c].ret>>
       /\ call[c].outcome = "returned"
       /\ call[c].ret = prev[c].ret
       /\ log[c] = <<"lookup">>
       /\ call[c].browser = ""

C2_Witness == \E c \in Calls : C2_Scenario(c)

\* Two consecutive calls of slot c on one address, the first of which returned
\* a record, with no cache write between the return of the first and the
\* lookup of the second
C3_Consecutive(c) ==
  /\ Done(c)
  /\ prev[c].url = call[c].url
  /\ prev[c].outcome = "returned"
  /\ ~prev[c].dirty

C4_BrowserClosed ==
  /\ \A c \in Calls : Done(c) => c \notin browsers
  /\ \A c \in Calls : Done(c) /\ InLog(c, "launch") /\ call[c].error # "launch"
                        => log[c][Len(log[c])] = "close"
  /\ (\A c \in Calls : ~InFlight(c)) => browsers = {}

C4_Witness ==
  \E c \in Calls :
    /\ Done(c) /\ call[c].outcome = "raised" /\ call[c].error = "availability"
    /\ call[c].browser = c /\ c \notin browsers

C6_AvailabilityFatal ==
  \A c \in Calls :
    "availability" \in call[c].failed
    => /\ call[c].pc \in {"close", "done"}
       /\ \A op \in BestEffort \cup {"insert"} : ~InLog(c, op)
       /\ call[c].error = "availability"
       /\ Done(c) => call[c].outcome = "raised" /\ call[c].ret = NoData

C6_Witness ==
  \E c \in Calls :
    /\ Done(c) /\ "availability" \in call[c].failed
    /\ call[c].outcome = "raised"

\* C7: each of the Contact Info, Amenities and Fees & Policies extractors
\* fails on its own: its field is absent in the returned record, the fields of
\* the others that succeeded are present, every step after it is run, and the
\* call returns.
C7_BestEffortIsolated ==
  \A c \in Calls :
    (Done(c) /\ call[c].failed \cap BestEffort # {})
    => /\ call[c].outcome = "returned"
       /\ log[c] = FullLog
       /\ \A op \in BestEffort :
            (op \in call[c].failed) <=> (call[c].ret[FieldOf(op)] = Absent)

C7_Witness ==
  \E c \in Calls :
    /\ Done(c) /\ call[c].failed = {"contact", "amenities"}
    /\ call[c].ret.feesAndPolicies # Absent

\* The record of a run on address u in which Availability, Contact Info and
\* Fees & Policies succeed and the Amenities extractor does not run
OkOutcome(outcomes) == CHOOSE o \in outcomes : o.ok
RunWithoutAmenities(u) ==
  LET p == [NoPage EXCEPT !.loaded = TRUE, !.url = u]
      a == OkOutcome(scrapeAvailabilityData(p))
      k == OkOutcome(scrapeContactInfo(a.page))
      f == OkOutcome(scrapeFeesAndPolicies(k.page))
  IN [a.value EXCEPT !.contactInfo = k.value, !.feesAndPolicies = f.value]

\* A call that returned a fresh record for which the Amenities extractor failed
\* and the Contact Info and Fees & Policies extractors succeeded
C8_AmenitiesThrew(c) ==
  /\ Done(c) /\ call[c].outcome = "returned" /\ ~call[c].hit
  /\ call[c].failed \cap BestEffort = {"amenities"}

C9_InsertFailureTolerated ==
  \A c \in Calls :
    (Done(c) /\ "insert" \in call[c].failed)
    => /\ call[c].outcome = "returned"
       /\ call[c].ret = Assemble(call[c])
       /\ \A f \in Mandatory : call[c].ret[f] # Absent
       /\ ~call[c].stored

C9_Witness ==
  \E c \in Calls :
    /\ Done(c) /\ call[c].failed = {"insert"}
    /\ call[c].outcome = "returned"
    /\ listings[call[c].url] = <<>>

\* C10: a lookup error other than 'not found' is a miss: it is not the error
\* of the call, and the call goes on to launch a browser and extract with the
\* locals it has after a lookup that found no row (but for the logged error).
C10_LookupErrorIsMiss ==
  \A c \in Calls :
    "lookup" \in call[c].failed
    => /\ ~call[c].hit
       /\ call[c].error # "lookup"
       /\ call[c].pc = "launch"
            => call[c] = [IdleCall EXCEPT !.pc = "launch", !.url = call[c].url,
                            !.fetchError = "OTHER", !.failed = {"lookup"},
                            !.dirty = call[c].dirty]
       /\ call[c].pc # "launch" => InLog(c, "launch")
       /\ Done(c) /\ call[c].failed = {"lookup"}
            => /\ call[c].outcome = "returned"
               /\ log[c] = FullLog
               /\ \A f \in DOMAIN NoData : call[c].ret[f] # Absent

C10_Witness ==
  \E c \in Calls :
    /\ Done(c) /\ call[c].failed = {"lookup"}
    /\ call[c].outcome = "returned"
    /\ Len(listings[call[c].url]) = 2

\* The number of times step op is in the log of slot c
Count(c, op) == Len(SelectSeq(log[c], LAMBDA x : x = op))

C12_OneRecordPerAddress == \A u \in Urls : Len(listings[u]) <= 1

\* C13 as stated: a persisted record is never updated or deleted, and a lookup
\* for its address returns that same record.
C13_WriteOnce ==
  [][ \A u \in Urls :
        listings[u] # <<>>
        => /\ Len(listings'[u]) >= Len(listings[u])
           /\ SubSeq(listings'[u], 1, Len(listings[u])) = listings[u]
           /\ Single(listings', u) =
                [found |-> TRUE, data |-> listings[u][1], error |-> ""] ]_vars

\* Slot c runs its first call while no other slot has called for its address,
\* each slot being in its first call
C14_Distinct(c) ==
  /\ call[c].pc # "idle"
  /\ \A x \in Calls : prev[x] = NoPrev
  /\ \A x \in Calls \ {c} : call[x].pc = "idle" \/ call[x].url # call[c].url

\* The record a call on address u returns when it runs alone with the
\* failures 'failed', its Fees extractor starting at scroll offset y
C14_Alone(u, failed, y) ==
  [propertyName |-> Val("propertyName", u, 0),
   propertyAddress |-> Val("propertyAddress", u, 0),
   bedInfo |-> Val("bedInfo", u, 0),
   availability |-> Val("availability", u, 0),
   contactInfo |-> IF "contact" \in failed
                     THEN Absent ELSE Val("contactInfo", u, 0),
   amenities |-> IF "amenities" \in failed
                   THEN Absent ELSE Val("amenities", u, ScrollStep),
   feesAndPolicies |-> IF "fees" \in failed
                         THEN Absent
                         ELSE Val("feesAndPolicies", u, y + ScrollStep)]

\* C14: calls for distinct addresses do not interfere: each has its own
\* browser, open until the call itself closes it, and its own page, on its own
\* address; its lookup misses as it does alone; the record it returns is the
\* one it returns alone with the same failures; and the cache entry of its
\* address is that record when its write succeeded and empty otherwise.
C14_NoInterference ==
  \A c \in Calls :
    C14_Distinct(c)
    => /\ ~call[c].hit
       /\ call[c].page.loaded => call[c].page.url = call[c].url
       /\ InFlight(c) /\ InLog(c, "launch") /\ ~InLog(c, "close")
            => call[c].browser = c /\ c \in browsers
       /\ \A x \in Calls \ {c} : call[x].browser # "" => call[x].browser # call[c].browser
       /\ Done(c) /\ call[c].outcome = "returned"
            => call[c].ret = C14_Alone(call[c].url, call[c].failed,
                                       call[c].feesPage.scrollY)
       /\ Done(c) /\ call[c].outcome = "raised" => call[c].ret = NoData
       /\ listings[call[c].url] =
            IF call[c].stored THEN <<call[c].result>> ELSE <<>>

\* Two calls in flight at once on distinct addresses, both past navigation;
\* one has stored its record, the other has not written yet
C14_Witness ==
  \E c, d \in Calls :
    /\ c # d /\ C14_Distinct(c) /\ C14_Distinct(d)
    /\ call[c].pc = "close" /\ call[c].stored
    /\ call[d].pc = "fees" /\ call[d].page.loaded
    /\ {c, d} \subseteq browsers

\* The place of step op in the order of the steps
StepNo ==
  [op \in {FullLog[i] : i \in 1..Len(FullLog)} |->
     CHOOSE i \in 1..Len(FullLog) : FullLog[i] = op]

\* C15: no retries: the steps a call has attempted are in the order of the
\* method, each at most once, and after a step that ends the extraction
\* (session acquisition or the Availability extractor failing) nothing but
\* the close of the browser is attempted.
C15_NoRetry ==
  \A c \in Calls :
    /\ \A i \in 1..(Len(log[c]) - 1) :
         StepNo[log[c][i]] < StepNo[log[c][i + 1]]
    /\ call[c].failed \cap Fatal # {}
         => LET n == Len(log[c])
                ended(i) == log[c][i] \in Fatal /\ log[c][i] \in call[c].failed
            IN /\ Cardinality(call[c].failed \cap Fatal) = 1
               /\ \/ ended(n)
                  \/ n >= 2 /\ ended(n - 1) /\ log[c][n] = "close"

C15_Witness ==
  \E c \in Calls :
    /\ Done(c) /\ call[c].failed = {"contact"}
    /\ log[c] = FullLog
    /\ \E d \in Calls :
         Done(d) /\ call[d].failed = {"goto"}
           /\ log[d] = <<"lookup", "launch", "newPage", "goto", "close">>

\* The fees functions have run on the document
FeesDone == job.pc = "done"

\* A card with a non-empty header, or at least one row, or non-empty comments
HasContent(c) ==
  c.header # <<>> \/ Len(c.rows) >= 1 \/ c.comments \notin {Null, <<>>}

\* C16: the cards of every tab are the parsed cards of its panel that have a
\* non-empty header, or at least one row, or non-empty comments, in the order
\* of the panel, and no other: a card with none of the three is dropped, a
\* card with comments only is kept.
C16_CardRetention ==
  FeesDone
  => \A k \in 1..Len(job.out.tabs) :
       LET parsed == Map(parseCard, job.dom.panels[job.from[k]].cards)
           kept == Ascending({i \in 1..Len(parsed) : HasContent(parsed[i])})
           cards == job.out.tabs[k].cards
       IN /\ Len(cards) = Len(kept)
          /\ \A j \in 1..Len(kept) : cards[j] = parsed[kept[j]]

\* A panel of two cards, the first with nothing in it and the second with
\* comments only: the tab has the second card alone
C16_Witness ==
  /\ FeesDone
  /\ Len(job.out.tabs) = 1
  /\ LET parsed == Map(parseCard, job.dom.panels[job.from[1]].cards) IN
     /\ Len(parsed) = 2
     /\ parsed[1] = [header |-> <<>>, rows |-> <<>>, comments |-> Null]
     /\ parsed[2] = [header |-> <<>>, rows |-> <<>>, comments |-> <<"x">>]
     /\ job.out.tabs[1].cards = <<parsed[2]>>

\* The document has no tab button: no tab-button group, or a group with no
\* button[role='tab'] in it
NoTabButtons == ~job.dom.tabNav \/ job.dom.buttons = <<>>

\* The fixed panels (their places in FixedPanels) that are in the document
PresentFixed ==
  Ascending({i \in 1..Len(FixedPanels) :
               \E p \in 1..Len(job.dom.panels) :
                 job.dom.panels[p].id = FixedPanels[i].id})

\* C17: with no tab button, every fixed panel that is in the document has
\* exactly one tab and every absent one has none; when one is present the
\* tabs are those of the present fixed panels and no other, in the order
\* Pets, Parking, Required Fees, Storage whatever the order of the document;
\* with the pets panel only there is exactly one tab, named 'Pets'.
C17_FixedPanelFallback ==
  (FeesDone /\ NoTabButtons)
  => LET tabs == job.out.tabs
         present == PresentFixed
     IN /\ \A i \in 1..Len(FixedPanels) :
             Cardinality({k \in 1..Len(tabs) :
                 job.dom.panels[job.from[k]].id = FixedPanels[i].id})
               = IF \E j \in 1..Len(present) : present[j] = i THEN 1 ELSE 0
        /\ present # <<>>
             => /\ Len(tabs) = Len(present)
                /\ \A k \in 1..Len(present) :
                     /\ tabs[k].tab = FixedPanels[present[k]].tab
                     /\ job.dom.panels[job.from[k]].id = FixedPanels[present[k]].id
        /\ present = <<1>>
             => Len(tabs) = 1 /\ tabs[1].tab = <<"Pets">>

\* The pets panel is the only fixed panel of the document and comes after two
\* panels of other kinds: the one tab is 'Pets'
C17_Witness ==
  /\ FeesDone /\ ~job.dom.tabNav
  /\ PresentFixed = <<1>>
  /\ Len(job.dom.panels) = 3 /\ job.dom.panels[3].id = PetsId
  /\ job.dom.panels[1].tabpanel
  /\ Len(job.out.tabs) = 1 /\ job.out.tabs[1].tab = <<"Pets">>

\* The contact function has run on the document
ContactDone == job.pc = "done"

\* No leading or trailing whitespace and no run of two whitespace characters
Normalized(s) ==
  /\ s # <<>> => Head(s) \notin Whitespace /\ s[Len(s)] \notin Whitespace
  /\ \A i \in 1..(Len(s) - 1) :
       ~(s[i] \in Whitespace /\ s[i + 1] \in Whitespace)

\* The string fields of a ContactInfo that are not undefined
ContactStrings(info) ==
  ( {info.language, info.todaysHours}
    \cup {info.phone[i].formatted : i \in 1..Len(info.phone)}
    \cup {info.phone[i].digits : i \in 1..Len(info.phone)}
    \cup {info.website[i].url : i \in 1..Len(info.website)}
    \cup {info.website[i].label : i \in 1..Len(info.website)}
    \cup {info.logo[i].url : i \in 1..Len(info.logo)}
    \cup {info.logo[i].alt : i \in 1..Len(info.logo)}
    \cup {info.officeHours[i].days : i \in 1..Len(info.officeHours)}
    \cup {info.officeHours[i].hours : i \in 1..Len(info.officeHours)} )
  \ {Null}

\* C18 as stated: every string field of the returned contact info is
\* whitespace-normalized, clean maps null to '' and clean is idempotent.
C18_Normalized ==
  ContactDone
  => /\ \A s \in ContactStrings(job.out) : Normalized(s)
     /\ clean(Null) = <<>>
     /\ \A s \in {job.dom.phoneSpan, job.dom.phoneData} :
          clean(clean(s)) = clean(s) /\ Normalized(clean(s))

\* The amenities functions have run on the document
AmenitiesDone == job.pc = "done"

\* The section element of the document the community section is parsed from
CommunityEl ==
  job.dom.sections[CHOOSE i \in 1..Len(job.dom.sections) :
    /\ toLowerCase(clean(job.dom.sections[i].heading))
         = toLowerCase(CommunityTitle)
    /\ \A j \in 1..(i - 1) :
         toLowerCase(clean(job.dom.sections[j].heading))
           # toLowerCase(CommunityTitle)]

\* The non-empty strings collected from the texts
Collected(texts) ==
  SelectSeq(Map(LAMBDA t : clean(Or(t, <<>>)), texts), LAMBDA s : s # <<>>)

\* out has no repeated string, has the strings of input and no other, and has
\* them in the order of their first occurrence in input
FirstSeenOrder(out, input) ==
  LET firstAt(s) == CHOOSE i \in 1..Len(input) :
                      input[i] = s /\ \A j \in 1..(i - 1) : input[j] # s
  IN /\ \A k, l \in 1..Len(out) : k # l => out[k] # out[l]
     /\ {out[k] : k \in 1..Len(out)} = {input[i] : i \in 1..Len(input)}
     /\ \A k, l \in 1..Len(out) : k < l => firstAt(out[k]) < firstAt(out[l])

\* C19: the icons of the section and the items of each of its groups have no
\* repeated string and are the collected (non-empty) strings in the order of
\* their first occurrence (A,B,A,C gives A,B,C); deduplicating them again
\* leaves them unchanged.
C19_DedupOrder ==
  (AmenitiesDone /\ job.out.community # NoObject)
  => LET section == job.out.community[1]
         groupEls == SelectSeq(CommunityEl.groups,
                       LAMBDA g : ~Falsy(clean(Or(g.header, <<>>)))
                                  \/ Len(g.items) > 0)
     IN /\ FirstSeenOrder(section.icons, Collected(CommunityEl.icons))
        /\ dedupe(section.icons) = section.icons
        /\ uniq(section.icons) = section.icons
        /\ Len(section.groups) = Len(groupEls)
        /\ \A k \in 1..Len(section.groups) :
             /\ FirstSeenOrder(section.groups[k].items,
                               Collected(groupEls[k].items))
             /\ dedupe(section.groups[k].items) = section.groups[k].items
        /\ Collected(CommunityEl.icons) = << <<"A">>, <<"B">>, <<"A">>, <<"C">> >>
             => section.icons = << <<"A">>, <<"B">>, <<"C">> >>

\* The icon labels read 'A ', 'B', 'A', 'C': the icons are A, B, C
C19_Witness ==
  /\ AmenitiesDone /\ job.out.community # NoObject
  /\ CommunityEl.icons = << <<"A", " ">>, <<"B">>, <<"A">>, <<"C">> >>
  /\ job.out.community[1].icons = << <<"A">>, <<"B">>, <<"C">> >>
  /\ job.evaluated.community[1].icons = job.out.community[1].icons

\* The additional buffers that load and whose pages can be copied
GoodDocs ==
  {i \in 1..Len(job.additional) : job.additional[i].kind = "pdf"}

\* C20: a merge whose base document loads succeeds whatever the additional
\* documents are; the merged document has the pages of the base, each once
\* and in their order, then those of every additional document that loads, in
\* input order and each in its own order, and no page of a document that
\* failed.
C20_MergeOrder ==
  (job.pc = "done" /\ job.base.kind = "pdf")
  => /\ job.outcome = "returned"
     /\ \A k \in 1..job.base.pages :
          job.out[k].doc = 0 /\ job.out[k].no = k
     /\ \A k, l \in 1..Len(job.out) :
          k < l => \/ job.out[k].doc < job.out[l].doc
                   \/ /\ job.out[k].doc = job.out[l].doc
                      /\ job.out[k].no < job.out[l].no
     /\ {<<job.out[k].doc, job.out[k].no>> : k \in 1..Len(job.out)}
          = {<<0, n>> : n \in 1..job.base.pages}
            \cup UNION {{<<i, n>> : n \in 1..job.additional[i].pages} :
                        i \in GoodDocs}
     /\ job.skipped = (1..Len(job.additional)) \ GoodDocs

\* Three additional documents, the second of which does not load and the third
\* of which gets a header: the merge returns the base, the first and the third
C20_Witness ==
  /\ job.pc = "done" /\ job.outcome = "returned"
  /\ job.base.pages = 2
  /\ Len(job.additional) = 3
  /\ GoodDocs = {1, 3} /\ job.additional[2].kind = "corrupt"
  /\ ~Falsy(job.headers[2]) /\ ~Falsy(job.headers[3])
  /\ [k \in 1..Len(job.out) |-> job.out[k].doc] = <<0, 0, 1, 3, 3>>
  /\ job.out[5].header = <<"Lease">>

\* C21: with no .contactInfo in the document the contact function returns
\* (it does not throw) an object whose officeHours is the empty sequence and
\* whose other fields are all absent; in every result officeHours is a
\* sequence, with one {days, hours} entry per row of the document.
C21_NoRootEmptyHours ==
  ContactDone
  => /\ ~job.dom.root
          => /\ job.out.officeHours = <<>>
             /\ job.out.phone = NoObject /\ job.out.website = NoObject
             /\ job.out.logo = NoObject
             /\ job.out.language = Null /\ job.out.todaysHours = Null
     /\ Len(job.out.officeHours)
          = IF job.dom.root THEN Len(job.dom.officeHours) ELSE 0
     /\ \A i \in 1..Len(job.out.officeHours) :
          DOMAIN job.out.officeHours[i] = {"days", "hours"}

C21_Witness ==
  /\ ContactDone /\ ~job.dom.root
  /\ job.out.officeHours = <<>> /\ job.out.phone = NoObject

\* The tab buttons of the document (none without a tab-button group) and the
\* places of the panels the scan of generic tab panels selects
TabButtonsOf == IF job.dom.tabNav THEN job.dom.buttons ELSE <<>>
GenericPanels ==
  Ascending({i \in 1..Len(job.dom.panels) : job.dom.panels[i].tabpanel})

\* No tab button names an element of the document
NoButtonResolves ==
  \A b \in 1..Len(TabButtonsOf) :
    Falsy(TabButtonsOf[b].controls)
      \/ ById(job.dom, TabButtonsOf[b].controls) = 0

\* C22 as stated: when no tab button resolves to a panel (there is no button,
\* or none names an element of the document) and none of the four fixed
\* panels is in the document, the tabs are those of the generic tab panels,
\* in document order.
C22_FallsThrough ==
  (FeesDone /\ NoButtonResolves /\ PresentFixed = <<>>)
  => /\ job.from = GenericPanels
     /\ Len(job.out.tabs) = Len(GenericPanels)

\* C23 as stated: within the section no item is in the items of two groups.
C23_SectionLevelDedup ==
  (AmenitiesDone /\ job.out.community # NoObject)
  => LET groups == job.out.community[1].groups IN
     \A k, l \in 1..Len(groups) :
       k # l => \A i \in 1..Len(groups[k].items) :
                  \A j \in 1..Len(groups[l].items) :
                    groups[k].items[i] # groups[l].items[j]

\* The extractors, which work on the page
Extractors == {"availability", "contact", "amenities", "fees"}

\* C24: the steps of a call that misses the cache come one after another in
\* the order lookup, launch, new page, navigation, Availability, Contact Info,
\* Amenities, Fees & Policies: an extractor has run only after every step
\* before it has run, each once, and the step a call is at is the only one in
\* progress, every step before it having finished (returned or failed).
C24_OneAfterAnother ==
  \A c \in Calls :
    /\ \A i \in 1..Len(log[c]) :
         log[c][i] \in Extractors
           => SubSeq(log[c], 1, i) = SubSeq(FullLog, 1, i)
    /\ call[c].pc \in DOMAIN StepNo
         => IF call[c].pc = "close"
              THEN Len(log[c]) >= 3
              ELSE log[c] = SubSeq(FullLog, 1, StepNo[call[c].pc] - 1)

C24_Witness ==
  \E c \in Calls :
    /\ call[c].pc = "fees"
    /\ call[c].failed = {"amenities"}
    /\ log[c] = SubSeq(FullLog, 1, 7)

\* The image of the card has been resolved
AvailabilityDone == job.pc = "done"

\* The URL of the inline style and the data attribute of the card's image
\* element; Null when there is none
InlineUrl ==
  IF job.imgDiv = NoObject \/ job.imgDiv[1].style.kind # "url" THEN Null
  ELSE job.imgDiv[1].style.url
DataUrl == IF job.imgDiv = NoObject THEN Null ELSE job.imgDiv[1].data

\* The resolution the model cards are said to have: the inline-style URL
\* when it is there and not empty, else the data attribute when it is there
\* and not empty, else nothing
Resolved ==
  job.image = IF ~Falsy(InlineUrl) THEN InlineUrl
              ELSE IF ~Falsy(DataUrl) THEN DataUrl ELSE Null

\* C25 as stated: image is the inline-style URL when both sources are there
\* and not empty, the one that is there when only one is, absent when neither.
C25_ImageResolution == AvailabilityDone => Resolved

\* C25 on the inline-style URLs that have no closing parenthesis in them
C25_ImageResolutionPlainUrl ==
  (AvailabilityDone
     /\ \A i \in 1..Len(InlineUrl) : InlineUrl[i] # ")")
  => Resolved

C25_PlainUrlWitness ==
  /\ AvailabilityDone
  /\ InlineUrl = <<"a", "a">> /\ DataUrl = <<"d">>
  /\ job.image = <<"a", "a">>

\* A call that missed the cache and failed
FailedMiss(locals) == locals.outcome = "raised"

\* C26 as stated: a call that missed the cache and failed has attempted no
\* cache write, and a lookup of its address after it is a miss.
C26_Original ==
  \A c \in Calls :
    (Done(c) /\ FailedMiss(call[c]))
    => /\ ~InLog(c, "insert")
       /\ ~IsCached(Single(listings, call[c].url))

\* C26 (amended): a call that missed the cache and failed has attempted no
\* cache write and has stored nothing; when its lookup had answered without an
\* error and no other call has written the address since that lookup, the
\* next call for the address misses the cache again.
C26_FailedMissWritesNothing ==
  \A c \in Calls :
    /\ (Done(c) /\ FailedMiss(call[c]))
         => /\ ~InLog(c, "insert")
            /\ ~call[c].stored /\ call[c].insertError = ""
    /\ ( /\ call[c].pc \notin {"idle", "lookup"}
         /\ FailedMiss(prev[c]) /\ prev[c].url = call[c].url
         /\ "lookup" \notin prev[c].failed /\ ~prev[c].dirty )
         => ~call[c].hit

C26_Witness ==
  \E c \in Calls :
    /\ FailedMiss(prev[c]) /\ prev[c].url = call[c].url
    /\ prev[c].failed = {"availability"} /\ ~prev[c].dirty
    /\ Done(c) /\ ~call[c].hit /\ call[c].stored

\* Calls c and d for one address overlapped (each made its lookup before the
\* other wrote) and both have completed with their record written
Overlapped(c, d) ==
  /\ c # d /\ call[c].url = call[d].url
  /\ Done(c) /\ call[c].stored /\ call[c].dirty
  /\ Done(d) /\ call[d].stored /\ call[d].dirty

\* C27 as stated: after two overlapping calls for an address have completed
\* with successful cache writes, the lookup of a call for that address
\* returns a stored record (the call is a cache hit).
C27_HitAfterOverlap ==
  \A c, d \in Calls :
    Overlapped(c, d) => IsCached(Single(listings, call[c].url))

\* C28: in a call that misses the cache the insert is attempted only after
\* the Contact Info, Amenities and Fees & Policies extractors have each run
\* to their end (returned or failed and caught); the browser is open while
\* the insert is attempted and is closed only after it; and the record a
\* successful insert stored is the record the call returns.
C28_WriteAfterExtractors ==
  \A c \in Calls :
    /\ \A i \in 1..Len(log[c]) :
         /\ log[c][i] = "insert"
              => /\ SubSeq(log[c], 1, i) = SubSeq(FullLog, 1, 9)
                 /\ call[c].failed \subseteq BestEffort \cup {"lookup", "insert"}
         /\ (log[c][i] = "close" /\ call[c].pending = "return")
              => i = 10 /\ log[c][9] = "insert"
    /\ call[c].pc = "insert" => call[c].browser \in browsers
    /\ (call[c].pc \in {"close", "done"} /\ call[c].pending = "return")
         => /\ call[c].result = Assemble(call[c])
            /\ call[c].stored
                 => \E i \in 1..Len(listings[call[c].url]) :
                      listings[call[c].url][i] = call[c].result
    /\ (Done(c) /\ call[c].pending = "return")
         => /\ call[c].outcome = "returned" /\ call[c].ret = call[c].result
            /\ call[c].browser \notin browsers

C28_Witness ==
  \E c \in Calls :
    /\ Done(c) /\ call[c].stored /\ call[c].failed = {"contact", "fees"}
    /\ log[c] = FullLog
    /\ call[c].ret.amenities # Absent
    /\ listings[call[c].url] = <<call[c].ret>>

Stalled(c) == call[c].pc = "stalled"

\* C29: when no awaited step hangs, every call made settles (returns a
\* record or raises) and has no browser open by then; a call whose awaited
\* step never completes stays as it is for ever: it never settles and the
\* browser it has launched stays open.
C29_Termination ==
  /\ ([] \A c \in Calls : ~Stalled(c))
       => \A c \in Calls :
            InFlight(c)
              ~> (Done(c) /\ call[c].outcome \in {"returned", "raised"}
                    /\ c \notin browsers)
  /\ [][\A c \in Calls :
          Stalled(c) => /\ Stalled(c)' /\ call'[c].outcome = "none"
                        /\ (c \in browsers => c \in browsers')]_vars

C29_Witness ==
  \E c \in Calls :
    /\ Done(c) /\ call[c].outcome = "raised" /\ c \notin browsers
    /\ call[c].failed = {"lookup", "goto"}
    /\ log[c] = <<"lookup", "launch", "newPage", "goto", "close">>

\* A call whose navigation never completes: stalled with its browser open
C29_Stall ==
  \E c \in Calls :
    /\ Stalled(c) /\ c \in browsers
    /\ log[c] = <<"lookup", "launch", "newPage">>

\* C30: a failed click on 'view all hours' is ignored: the Contact Info
\* extractor has not failed and contactInfo is what it read; a failed click on
\* the 'all-in pricing' toggle ends the Fees & Policies extractor:
\* feesAndPolicies is absent; either way the call returns a record, with
\* contactInfo there in the first case and feesAndPolicies absent in the
\* second.
C30_ClickFailures ==
  \A c \in Calls :
    /\ "hours" \in call[c].clicks
         => /\ "contact" \notin call[c].failed
            /\ call[c].contactInfo = Val("contactInfo", call[c].url, 0)
    /\ "pricing" \in call[c].clicks
         => "fees" \in call[c].failed /\ call[c].feesAndPolicies = Absent
    /\ (Done(c) /\ call[c].clicks # {})
         => /\ call[c].outcome = "returned"
            /\ "hours" \in call[c].clicks
                 => call[c].ret.contactInfo = call[c].contactInfo
            /\ "pricing" \in call[c].clicks
                 => call[c].ret.feesAndPolicies = Absent

C30_Witness ==
  \E c \in Calls :
    /\ Done(c) /\ call[c].clicks = {"hours", "pricing"}
    /\ call[c].failed = {"fees"}
    /\ call[c].outcome = "returned"
    /\ call[c].ret.contactInfo # Absent
    /\ call[c].ret.feesAndPolicies = Absent

====
